---- MODULE Spec2Model ----
(***************************************************************************)
(* State-reconciliation core of digitex_bot_framework: Market.handle_message *)
(* and the handlers it dispatches to (market.py), over the entities they    *)
(* mutate: trader, position, order registry, currency pairs, last trade,    *)
(* order book, and the list of scheduled notification callbacks.            *)
(*                                                                          *)
(* Conventions.  Python None is NoneNum for a number, "None" for an enum or *)
(* bool, "" for an id (empty bytes) and <<>> for an object or a dict (a     *)
(* present object x is <<x>>).  A Decimal is an integer.  An Order object   *)
(* lives in a heap slot; its identity (what `event not in                   *)
(* scheduled_events` compares for a bound method) is the slot number.       *)
(***************************************************************************)
EXTENDS Integers, Sequences, FiniteSets, TLC

(* ------------------------------ bounds --------------------------------- *)
\* Longest list of embedded order records in one message.
MaxOrders == 2
\* Number of heap slots for Order objects that are alive at the same time.
MaxObjects == 3
\* Longest list of price levels in one side of an order-book message.
MaxLevels == 2

(* ------------------------- values and enums ---------------------------- *)
NoneNum == 0 - 1
NoId == ""
Ids == {"a", "b"}
Live == {"ACCEPTED", "PARTIAL"}
Terminal == {"FILLED", "CANCELED", "REJECTED"}
Statuses == Live \cup Terminal
\* what an observer callback may return: nothing, a coroutine, anything else
Returns == {"None", "coroutine", "other"}
\* the market's own currency pair, the pairs bot.currency_pairs tracks
OwnPair == 1
\* Market.id, the market_id of an order_book_request
MarketId == 1
TrackedPairs == {1, 2}

(* callbacks: a bound method <<hook, target>>; target is the heap slot of   *)
(* an order, the id of a currency pair, and 0 for a singleton entity.       *)
TraderOnUpdate == <<"trader.on_update", 0>>
PositionOnUpdate == <<"position.on_update", 0>>
MarginsOnUpdate == <<"orders.on_margins_update", 0>>
LastTradeOnUpdate == <<"last_trade.on_update", 0>>
OrderBookOnUpdate == <<"order_book.on_update", 0>>
PairOnUpdate(pair) == <<"currency_pair.on_update", pair>>
OrderOnUpdate(oid) == <<"order.on_update", oid>>
Hooks == {"trader.on_update", "position.on_update", "orders.on_margins_update",
          "last_trade.on_update", "order_book.on_update",
          "currency_pair.on_update", "order.on_update"}

(* ------------------------------ state ---------------------------------- *)
VARIABLES
    trader,            \* Trader: balance, upnl, pnl, leverage
    position,          \* trader.position
    margins,           \* trader.orders: margin, buy_margin, sell_margin
    orders,            \* trader.orders: the registry, order id -> heap slot
    heap,              \* the Order objects, heap slot -> fields
    currency_pairs,    \* bot.currency_pairs: pair id -> mutable fields
    last_trade,        \* Market.last_trade: <<>> or <<Trade>>
    order_book,        \* Market.order_book: bids, asks, each <<>> or <<dict>>
    scheduled_events   \* Market.scheduled_events

vars == <<trader, position, margins, orders, heap, currency_pairs, last_trade,
          order_book, scheduled_events>>

FreeSlot == [id |-> NoId, price |-> NoneNum, quantity |-> NoneNum,
             status |-> "None", error_code |-> NoneNum]
Slots == 1..MaxObjects

InSeq(x, seq) == \E i \in 1..Len(seq) : seq[i] = x

\* The program state at the start of a call of handle_message, as the record
\* that is threaded through the handlers.  Besides the state it carries the
\* call's own bookkeeping: trace, what the call has done so far, in order;
\* failed, the exception that ended it ("none" while it runs and when it
\* returns); ret, the slot of the order handle_order returned last.
State == [trader |-> trader, position |-> position, margins |-> margins,
          orders |-> orders, heap |-> heap, currency_pairs |-> currency_pairs,
          last_trade |-> last_trade, order_book |-> order_book,
          scheduled_events |-> scheduled_events,
          trace |-> <<>>, failed |-> "none", ret |-> 0, overflow |-> FALSE]

Log(s, entry) == [s EXCEPT !.trace = Append(@, entry)]
Raise(s, exception) == Log([s EXCEPT !.failed = exception], <<"raise", exception, 0>>)

(* ----------------------- notification coalescer ------------------------ *)
\* schedule_event without the membership test of line 48
schedule_event_Appends(s, event) ==
    [Log(s, <<"schedule", event[1], event[2]>>)
        EXCEPT !.scheduled_events = Append(@, event)]

schedule_event(s, event) ==
    LET logged == Log(s, <<"schedule", event[1], event[2]>>)
    IN  IF InSeq(event, s.scheduled_events)
        THEN logged
        ELSE [logged EXCEPT !.scheduled_events = Append(@, event)]

\* emit_event swallowing a result that is neither None nor a coroutine
emit_event_Swallows(s, event, res) ==
    LET called == Log(s, <<"emit", event[1], event[2]>>)
    IN  CASE res[event[1]] = "None" -> called
          [] res[event[1]] = "coroutine" ->
                Log(called, <<"create_task", event[1], event[2]>>)
          [] OTHER -> called

\* res: what each hook's callback returns when called in this flush
emit_event(s, event, res) ==
    LET called == Log(s, <<"emit", event[1], event[2]>>)
    IN  CASE res[event[1]] = "None" -> called
          [] res[event[1]] = "coroutine" ->
                Log(called, <<"create_task", event[1], event[2]>>)
          [] OTHER -> Raise(called, "TypeError")

(* ------------------------- entity updates ------------------------------ *)
handle_mark_price(s, m) ==
    schedule_event(
        Log([s EXCEPT !.currency_pairs[OwnPair].mark_price = m.mark_price],
            <<"set", "currency_pair", OwnPair>>),
        PairOnUpdate(OwnPair))

handle_last_trade(s, m) ==
    schedule_event(
        Log([s EXCEPT !.last_trade = << [price |-> m.last_trade_price,
                                         quantity |-> m.last_trade_quantity,
                                         time |-> m.last_trade_timestamp] >>],
            <<"set", "last_trade", 0>>),
        LastTradeOnUpdate)

handle_position(s, m) ==
    schedule_event(
        Log([s EXCEPT !.position =
                [contracts |-> m.position_contracts,
                 volume |-> m.position_volume,
                 liquidation_volume |-> m.position_liquidation_volume,
                 bankruptcy_volume |-> m.position_bankruptcy_volume,
                 type |-> m.position_type,
                 margin |-> m.position_margin]],
            <<"set", "position", 0>>),
        PositionOnUpdate)

handle_order_margin(s, m) ==
    schedule_event(
        Log([s EXCEPT !.margins = [margin |-> m.order_margin,
                                   buy_margin |-> m.buy_order_margin,
                                   sell_margin |-> m.sell_order_margin]],
            <<"set", "margins", 0>>),
        MarginsOnUpdate)

handle_leverage(s, m) ==
    IF m.leverage = 0
    THEN s
    ELSE schedule_event(
            Log([s EXCEPT !.trader.leverage = m.leverage], <<"set", "leverage", 0>>),
            TraderOnUpdate)

\* handle_balance calling the callback at once instead of scheduling it
handle_balance_CallsAtOnce(s, m) ==
    emit_event(
        Log([s EXCEPT !.trader.balance = m.trader_balance,
                      !.trader.upnl = m.upnl,
                      !.trader.pnl = m.pnl],
            <<"set", "trader", 0>>),
        TraderOnUpdate, [h \in {"trader.on_update"} |-> "None"])

handle_balance(s, m) ==
    schedule_event(
        Log([s EXCEPT !.trader.balance = m.trader_balance,
                      !.trader.upnl = m.upnl,
                      !.trader.pnl = m.pnl],
            <<"set", "trader", 0>>),
        TraderOnUpdate)

(* --------------------------- order registry ---------------------------- *)
\* Orders.look_up_by_id: the registered object's slot, 0 for None
look_up_by_id(s, id) == IF id \in DOMAIN s.orders THEN s.orders[id] ELSE 0

\* Orders.add
add(s, oid) ==
    Log([s EXCEPT !.orders = [i \in DOMAIN @ \cup {s.heap[oid].id} |->
                                IF i = s.heap[oid].id THEN oid ELSE @[i]]],
        <<"add", s.heap[oid].id, oid>>)

\* Orders.remove
remove(s, oid) ==
    Log([s EXCEPT !.orders = [i \in DOMAIN @ \ {s.heap[oid].id} |-> @[i]]],
        <<"remove", s.heap[oid].id, oid>>)

FreeSlots(s) == {o \in Slots : s.heap[o].id = NoId}

\* the constructor call: a new object in the lowest free slot
create_order_from_message(s, m, id) ==
    IF FreeSlots(s) = {}
    THEN [s EXCEPT !.overflow = TRUE, !.failed = "overflow"]
    ELSE LET oid == CHOOSE o \in FreeSlots(s) : \A p \in FreeSlots(s) : o <= p
         IN  [s EXCEPT !.heap[oid] = [id |-> id,
                                      price |-> m.price,
                                      quantity |-> m.quantity,
                                      status |-> "None",
                                      error_code |-> NoneNum],
                       !.ret = oid]

NoOuter == [present |-> FALSE, client_id |-> NoId, error_code |-> 0]
Outer(m) == [present |-> TRUE, client_id |-> m.client_id, error_code |-> m.error_code]

\* NewStatus inferring the status of an order it has seen before as well
NewStatus_InfersForKnown(s, oid, m, forced_status, have_seen_this_order_before) ==
    IF m.has_status THEN m.status
    ELSE IF forced_status # "None" THEN forced_status
    ELSE IF m.orig_quantity # s.heap[oid].quantity THEN "PARTIAL" ELSE "ACCEPTED"

\* lines 113-121: the status the order gets
NewStatus(s, oid, m, forced_status, have_seen_this_order_before) ==
    IF m.has_status THEN m.status
    ELSE IF forced_status # "None" THEN forced_status
    ELSE IF ~have_seen_this_order_before
         THEN IF m.orig_quantity # s.heap[oid].quantity THEN "PARTIAL" ELSE "ACCEPTED"
         ELSE s.heap[oid].status

\* AttachErrorCode treating the envelope's error code as a failure of the call
AttachErrorCode_Raises(s, oid, outer_message) ==
    IF outer_message.present /\ outer_message.error_code # 0
    THEN Raise(s, "OrderError")
    ELSE s

\* AttachErrorCode storing the envelope's error code also when it is zero
AttachErrorCode_StoresZero(s, oid, outer_message) ==
    IF outer_message.present
    THEN [s EXCEPT !.heap[oid].error_code = outer_message.error_code]
    ELSE s

\* lines 123-124: a nonzero error code of the envelope goes onto the order
AttachErrorCode(s, oid, outer_message) ==
    IF outer_message.present /\ outer_message.error_code # 0
    THEN [s EXCEPT !.heap[oid].error_code = outer_message.error_code]
    ELSE s

\* KeepOrDrop without the removal of line 128
KeepOrDrop_NeverRemoves(s, oid, have_seen_this_order_before) ==
    IF ~have_seen_this_order_before /\ s.heap[oid].status \in Live
    THEN add(s, oid)
    ELSE s

\* KeepOrDrop adding every order it has not seen, whatever its status
KeepOrDrop_AddsTerminal(s, oid, have_seen_this_order_before) ==
    IF have_seen_this_order_before /\ s.heap[oid].status \notin Live
    THEN remove(s, oid)
    ELSE IF ~have_seen_this_order_before
         THEN add(s, oid)
         ELSE s

\* lines 126-130: registry membership follows the status
KeepOrDrop(s, oid, have_seen_this_order_before) ==
    IF have_seen_this_order_before /\ s.heap[oid].status \notin Live
    THEN remove(s, oid)
    ELSE IF ~have_seen_this_order_before /\ s.heap[oid].status \in Live
         THEN add(s, oid)
         ELSE s

\* the returned order is s.ret; have_seen_this_order_before is not used by
\* any caller that handle_message reaches
handle_order(s, m, outer_message, forced_status) ==
    IF m.orig_client_id = NoId /\ ~outer_message.present
    THEN Raise(s, "AttributeError")
    ELSE IF m.orig_client_id = NoId /\ outer_message.client_id = NoId
    THEN Raise(s, "ValueError")
    ELSE
    LET id == IF m.orig_client_id # NoId THEN m.orig_client_id
              ELSE outer_message.client_id
        found == look_up_by_id(s, id)
        have_seen_this_order_before == found # 0
        s1 == IF have_seen_this_order_before
              THEN [s EXCEPT !.ret = found]
              ELSE create_order_from_message(s, m, id)
    IN  IF s1.overflow THEN s1
        ELSE
        LET oid == s1.ret
            s2 == [s1 EXCEPT !.heap[oid].status =
                      NewStatus(s1, oid, m, forced_status, have_seen_this_order_before)]
            s3 == AttachErrorCode(s2, oid, outer_message)
        IN  IF s3.failed # "none" THEN s3
            ELSE KeepOrDrop(Log(s3, <<"handle_order", id, oid>>), oid,
                            have_seen_this_order_before)

(* --------------------------- order handlers ---------------------------- *)
\* handle_order_status_msg without the test of the error code (line 136)
handle_order_status_msg_AlwaysUpdates(s, m, outer_message) ==
    LET s1 == handle_order_margin(handle_position(handle_balance(s, m), m), m)
        s2 == handle_order(s1, m, outer_message, "None")
    IN  IF s2.failed # "none" THEN s2
        ELSE schedule_event(s2, OrderOnUpdate(s2.ret))

handle_order_status_msg(s, m, outer_message) ==
    LET s1 == IF outer_message.error_code = 0
              THEN handle_order_margin(handle_position(handle_balance(s, m), m), m)
              ELSE s
        s2 == handle_order(s1, m, outer_message, "None")
    IN  IF s2.failed # "none" THEN s2
        ELSE schedule_event(s2, OrderOnUpdate(s2.ret))

\* defined by market.py but called from nowhere: handle_message sends an
\* order_filled_msg to handle_order_status_msg (line 75)
handle_order_filled_message(s, m, outer_message) ==
    LET s1 == handle_order_margin(handle_balance(handle_position(s, m), m), m)
        s2 == handle_order(s1, m, outer_message, "None")
    IN  IF s2.failed # "none" THEN s2
        ELSE schedule_event(
                Log([s2 EXCEPT !.heap[s2.ret].quantity =
                        m.orig_quantity - m.quantity - m.dropped_quantity],
                    <<"set", "order.quantity", s2.ret>>),
                OrderOnUpdate(s2.ret))

\* the loops of lines 166-172 and 279-281, from entry i on
RECURSIVE HandleOrders(_, _, _, _, _)
HandleOrders(s, order_msgs, i, outer_message, forced_status) ==
    IF s.failed # "none" \/ i > Len(order_msgs)
    THEN s
    ELSE LET s1 == handle_order(s, order_msgs[i], outer_message, forced_status)
         IN  HandleOrders(IF s1.failed # "none" THEN s1
                          ELSE schedule_event(s1, OrderOnUpdate(s1.ret)),
                          order_msgs, i + 1, outer_message, forced_status)

\* handle_order_canceled_msg not passing forced_status on
handle_order_canceled_msg_NoForcedStatus(s, m, outer_message) ==
    LET s1 == handle_balance(handle_mark_price(handle_order_margin(s, m), m), m)
        s2 == schedule_event(
                Log([s1 EXCEPT !.position.margin = m.position_margin],
                    <<"set", "position.margin", 0>>),
                PositionOnUpdate)
    IN  HandleOrders(s2, m.orders, 1, outer_message, "None")

handle_order_canceled_msg(s, m, outer_message) ==
    LET s1 == handle_balance(handle_mark_price(handle_order_margin(s, m), m), m)
        s2 == schedule_event(
                Log([s1 EXCEPT !.position.margin = m.position_margin],
                    <<"set", "position.margin", 0>>),
                PositionOnUpdate)
    IN  HandleOrders(s2, m.orders, 1, outer_message, m.status)

handle_leverage_msg(s, m, outer_message) ==
    LET s1 == handle_leverage(s, m)
    IN  IF outer_message.error_code = 0
        THEN handle_last_trade(
                handle_order_margin(handle_position(handle_balance(s1, m), m), m), m)
        ELSE s1

handle_trader_status_msg(s, m) ==
    LET s1 == handle_leverage(
                handle_position(
                  handle_order_margin(
                    handle_last_trade(
                      handle_mark_price(handle_balance(s, m), m), m), m), m), m)
    IN  HandleOrders(s1, m.orders, 1, NoOuter, "None")

handle_trader_balance_msg(s, m) ==
    handle_position(handle_order_margin(handle_last_trade(handle_balance(s, m), m), m), m)

(* ------------------------------ order book ----------------------------- *)
EmptyDict == [price \in {} |-> 0]

\* populate_orderbook without the deletion of line 228
RECURSIVE populate_orderbook_NeverDeletes(_, _, _)
populate_orderbook_NeverDeletes(target, source, i) ==
    IF i > Len(source)
    THEN target
    ELSE LET entry == source[i]
         IN  populate_orderbook_NeverDeletes(
                [p \in DOMAIN target \cup {entry.price} |->
                    IF p = entry.price THEN entry ELSE target[p]],
                source, i + 1)

\* Market.populate_orderbook, from entry i on; target is a dict price -> entry
RECURSIVE populate_orderbook(_, _, _)
populate_orderbook(target, source, i) ==
    IF i > Len(source)
    THEN target
    ELSE LET entry == source[i]
         IN  populate_orderbook(
                IF entry.quantity = 0 /\ entry.price \in DOMAIN target
                THEN [p \in DOMAIN target \ {entry.price} |-> target[p]]
                ELSE [p \in DOMAIN target \cup {entry.price} |->
                        IF p = entry.price THEN entry ELSE target[p]],
                source, i + 1)

\* handle_order_book_msg without the clear() of lines 234-235
handle_order_book_msg_KeepsLevels(s, m) ==
    LET s1 == IF Len(s.order_book.bids) # 0
              THEN s
              ELSE [s EXCEPT !.order_book = [bids |-> <<EmptyDict>>,
                                             asks |-> <<EmptyDict>>]]
        s2 == Log([s1 EXCEPT !.order_book =
                      [bids |-> <<populate_orderbook(@.bids[1], m.bids, 1)>>,
                       asks |-> <<populate_orderbook(@.asks[1], m.asks, 1)>>]],
                  <<"set", "order_book", 0>>)
    IN  schedule_event(handle_mark_price(handle_last_trade(s2, m), m),
                       OrderBookOnUpdate)

handle_order_book_msg(s, m) ==
    LET s1 == IF Len(s.order_book.bids) # 0
              THEN [s EXCEPT !.order_book = [bids |-> <<EmptyDict>>,
                                             asks |-> <<EmptyDict>>]]   \* clear()
              ELSE [s EXCEPT !.order_book = [bids |-> <<EmptyDict>>,
                                             asks |-> <<EmptyDict>>]]   \* dict()
        s2 == Log([s1 EXCEPT !.order_book =
                      [bids |-> <<populate_orderbook(@.bids[1], m.bids, 1)>>,
                       asks |-> <<populate_orderbook(@.asks[1], m.asks, 1)>>]],
                  <<"set", "order_book", 0>>)
    IN  schedule_event(handle_mark_price(handle_last_trade(s2, m), m),
                       OrderBookOnUpdate)

\* handle_order_book_updated_msg applying the update to a book it starts
\* itself when there is none
handle_order_book_updated_msg_StartsBook(s, m) ==
    LET s0 == IF Len(s.order_book.bids) # 0
              THEN s
              ELSE Log([s EXCEPT !.order_book = [bids |-> <<EmptyDict>>,
                                                 asks |-> <<EmptyDict>>]],
                       <<"create_task", "order_book_request", MarketId>>)
        s1 == schedule_event(
                  Log([s0 EXCEPT !.order_book =
                          [bids |-> <<populate_orderbook(@.bids[1], m.bid_updates, 1)>>,
                           asks |-> <<populate_orderbook(@.asks[1], m.ask_updates, 1)>>]],
                      <<"set", "order_book", 0>>),
                  OrderBookOnUpdate)
    IN  handle_last_trade(handle_last_trade(s1, m), m)

\* handle_order_book_updated_msg testing the bids for truth (`if bids:`)
\* instead of `is not None`: a book with no bid level counts as absent
handle_order_book_updated_msg_Truthy(s, m) ==
    LET s1 == IF Len(s.order_book.bids) # 0 /\ DOMAIN s.order_book.bids[1] # {}
              THEN schedule_event(
                      Log([s EXCEPT !.order_book =
                              [bids |-> <<populate_orderbook(@.bids[1], m.bid_updates, 1)>>,
                               asks |-> <<populate_orderbook(@.asks[1], m.ask_updates, 1)>>]],
                          <<"set", "order_book", 0>>),
                      OrderBookOnUpdate)
              ELSE Log(s, <<"create_task", "order_book_request", MarketId>>)
    IN  handle_last_trade(handle_last_trade(s1, m), m)

handle_order_book_updated_msg(s, m) ==
    LET s1 == IF Len(s.order_book.bids) # 0
              THEN schedule_event(
                      Log([s EXCEPT !.order_book =
                              [bids |-> <<populate_orderbook(@.bids[1], m.bid_updates, 1)>>,
                               asks |-> <<populate_orderbook(@.asks[1], m.ask_updates, 1)>>]],
                          <<"set", "order_book", 0>>),
                      OrderBookOnUpdate)
              ELSE Log(s, <<"create_task", "order_book_request", MarketId>>)
    IN  handle_last_trade(handle_last_trade(s1, m), m)

\* handle_exchange_rate_msg writing to the market's own pair, whichever pair
\* the message names
handle_exchange_rate_msg_OwnPair(s, m) ==
    IF m.currency_pair_id \notin DOMAIN s.currency_pairs
    THEN s
    ELSE schedule_event(
            Log([s EXCEPT !.currency_pairs[OwnPair] =
                    [mark_price |-> m.mark_price,
                     sell_price |-> m.sell_price,
                     buy_price |-> m.buy_price,
                     unreliable |-> IF m.unreliable # 0 THEN "True" ELSE "False"]],
                <<"set", "currency_pair", OwnPair>>),
            PairOnUpdate(OwnPair))

handle_exchange_rate_msg(s, m) ==
    IF m.currency_pair_id \notin DOMAIN s.currency_pairs
    THEN s
    ELSE schedule_event(
            Log([s EXCEPT !.currency_pairs[m.currency_pair_id] =
                    [mark_price |-> m.mark_price,
                     sell_price |-> m.sell_price,
                     buy_price |-> m.buy_price,
                     unreliable |-> IF m.unreliable # 0 THEN "True" ELSE "False"]],
                <<"set", "currency_pair", m.currency_pair_id>>),
            PairOnUpdate(m.currency_pair_id))

(* ------------------------------ dispatcher ----------------------------- *)
\* lines 61-79
Dispatch(s, m) ==
    CASE m.kind = "trader_status_msg" -> handle_trader_status_msg(s, m)
      [] m.kind = "trader_balance_msg" -> handle_trader_balance_msg(s, m)
      [] m.kind = "exchange_rate_msg" -> handle_exchange_rate_msg(s, m)
      [] m.kind = "order_book_msg" -> handle_order_book_msg(s, m)
      [] m.kind = "order_book_updated_msg" -> handle_order_book_updated_msg(s, m)
      [] m.kind = "order_status_msg" -> handle_order_status_msg(s, m, Outer(m))
      [] m.kind = "order_filled_msg" -> handle_order_status_msg(s, m, Outer(m))
      [] m.kind = "order_canceled_msg" -> handle_order_canceled_msg(s, m, Outer(m))
      [] m.kind = "leverage_msg" -> handle_leverage_msg(s, m, Outer(m))
      [] OTHER -> s

\* the loop of lines 84-85, from event i on; an exception ends it
RECURSIVE EmitEvents(_, _, _)
EmitEvents(s, i, res) ==
    IF s.failed # "none" \/ i > Len(s.scheduled_events)
    THEN s
    ELSE EmitEvents(emit_event(s, s.scheduled_events[i], res), i + 1, res)

\* lines 84-86
Flush(s, res) ==
    LET s1 == EmitEvents(s, 1, res)
    IN  IF s1.failed # "none" THEN s1
        ELSE [s1 EXCEPT !.scheduled_events = <<>>]

handle_message(s, m, res) ==
    LET s1 == Dispatch(s, m)
    IN  IF s1.failed # "none" THEN s1 ELSE Flush(s1, res)

\* An Order object that neither the registry nor a scheduled callback refers
\* to is gone once the call that made it has returned.
Referenced(s, oid) ==
    \/ \E id \in DOMAIN s.orders : s.orders[id] = oid
    \/ InSeq(OrderOnUpdate(oid), s.scheduled_events)

Collected(s) == [oid \in Slots |-> IF Referenced(s, oid) THEN s.heap[oid] ELSE FreeSlot]

\* what the call handle_message(m) does in the current state; res is what the
\* observers' callbacks return
Handled(m, res) == handle_message(State, m, res)

\* the state a finished call leaves, as the start of the next call
AfterCall(s) == [s EXCEPT !.heap = Collected(s), !.trace = <<>>, !.failed = "none",
                      !.ret = 0]

\* One call of Market.handle_message(m), returning or raising.
HandleMessage(m, res) ==
    \E s \in {Handled(m, res)} :
        /\ ~s.overflow
        /\ trader' = s.trader
        /\ position' = s.position
        /\ margins' = s.margins
        /\ orders' = s.orders
        /\ heap' = Collected(s)
        /\ currency_pairs' = s.currency_pairs
        /\ last_trade' = s.last_trade
        /\ order_book' = s.order_book
        /\ scheduled_events' = s.scheduled_events

\* Market.__init__ (lines 20-38), the bot attached, no message handled yet
Init ==
    /\ trader = [balance |-> NoneNum, upnl |-> NoneNum, pnl |-> NoneNum,
                 leverage |-> NoneNum]
    /\ position = [contracts |-> NoneNum, volume |-> NoneNum,
                   liquidation_volume |-> NoneNum, bankruptcy_volume |-> NoneNum,
                   type |-> "None", margin |-> NoneNum]
    /\ margins = [margin |-> NoneNum, buy_margin |-> NoneNum, sell_margin |-> NoneNum]
    /\ orders = [id \in {} |-> 0]
    /\ heap = [oid \in Slots |-> FreeSlot]
    /\ currency_pairs = [pair \in TrackedPairs |->
                            [mark_price |-> NoneNum, sell_price |-> NoneNum,
                             buy_price |-> NoneNum, unreliable |-> "None"]]
    /\ last_trade = <<>>
    /\ order_book = [bids |-> <<>>, asks |-> <<>>]
    /\ scheduled_events = <<>>

(* ------------------------------ messages ------------------------------- *)
\* The decimal a message stamped v carries in its k-th field: two messages
\* with different stamps differ in every field, two fields of one message
\* differ from each other.
Val(v, k) == 100 * v + k

\* the account fields the handlers read with decimal_from_proto
AccountFields(v) ==
    [trader_balance |-> Val(v, 1), upnl |-> Val(v, 2), pnl |-> Val(v, 3),
     position_contracts |-> Val(v, 4), position_volume |-> Val(v, 5),
     position_liquidation_volume |-> Val(v, 6),
     position_bankruptcy_volume |-> Val(v, 7),
     position_type |-> IF v % 2 = 1 THEN "LONG" ELSE "SHORT",
     position_margin |-> Val(v, 8),
     order_margin |-> Val(v, 9), buy_order_margin |-> Val(v, 10),
     sell_order_margin |-> Val(v, 11),
     mark_price |-> Val(v, 12),
     last_trade_price |-> Val(v, 13), last_trade_quantity |-> Val(v, 14),
     last_trade_timestamp |-> Val(v, 15)]

\* an OrderMessage embedded in a trader-status or order-canceled message:
\* it has no status field (hence forced_status and the inferred status)
OrderMsg(orig_client_id, price, quantity) ==
    [orig_client_id |-> orig_client_id, price |-> price, quantity |-> quantity,
     orig_quantity |-> 10, has_status |-> FALSE, status |-> "None"]

TraderStatusMsg(v, leverage, order_msgs) ==
    [kind |-> "trader_status_msg", leverage |-> leverage, orders |-> order_msgs]
        @@ AccountFields(v)

TraderBalanceMsg(v) == [kind |-> "trader_balance_msg"] @@ AccountFields(v)

ExchangeRateMsg(v, pair, unreliable) ==
    [kind |-> "exchange_rate_msg", currency_pair_id |-> pair,
     mark_price |-> Val(v, 12), sell_price |-> Val(v, 16), buy_price |-> Val(v, 17),
     unreliable |-> unreliable]

OrderBookMsg(v, bids, asks) ==
    [kind |-> "order_book_msg", bids |-> bids, asks |-> asks] @@ AccountFields(v)

OrderBookUpdatedMsg(v, bids, asks) ==
    [kind |-> "order_book_updated_msg", bid_updates |-> bids, ask_updates |-> asks]
        @@ AccountFields(v)

\* kind: "order_status_msg" or "order_filled_msg"
OrderStatusMsg(kind, v, client_id, error_code, order_msg, has_status, status) ==
    [kind |-> kind, client_id |-> client_id, error_code |-> error_code,
     orig_client_id |-> order_msg.orig_client_id, price |-> order_msg.price,
     quantity |-> order_msg.quantity, orig_quantity |-> order_msg.orig_quantity,
     dropped_quantity |-> 1, has_status |-> has_status, status |-> status]
        @@ AccountFields(v)

OrderCanceledMsg(v, client_id, error_code, status, order_msgs) ==
    [kind |-> "order_canceled_msg", client_id |-> client_id,
     error_code |-> error_code, status |-> status, orders |-> order_msgs]
        @@ AccountFields(v)

LeverageMsg(v, error_code, leverage) ==
    [kind |-> "leverage_msg", client_id |-> NoId, error_code |-> error_code,
     leverage |-> leverage] @@ AccountFields(v)

\* a kind handle_message does not dispatch
UnknownMsg == [kind |-> "pong_msg"]

\* lists of length 0..n over S
SeqsUpTo(S, n) == UNION {[1..k -> S] : k \in 0..n}

\* every hook's callback returns nothing / hook h returns r, the others nothing
AllNone == [h \in Hooks |-> "None"]
Only(h, r) == [g \in Hooks |-> IF g = h THEN r ELSE "None"]

(* ------------------- the order messages of SpecOrders ------------------ *)
\* Every message of SpecOrders either resolves its order ids or fails before
\* it has scheduled anything, and every callback returns nothing: no call
\* leaves a callback behind.  SpecFailures has the calls that do.
NamedOrders == {OrderMsg("a", 1, 10), OrderMsg("a", 2, 4), OrderMsg("b", 1, 10)}
EmbeddedOrders == NamedOrders \cup {OrderMsg(NoId, 1, 10)}
\* <<client_id, error_code>> of an envelope
Envelopes == {<<"b", 0>>, <<"b", 7>>, <<"b", 8>>, <<NoId, 7>>}

OrdersTraderStatusMsgs ==
    {TraderStatusMsg(1, 0, l) : l \in SeqsUpTo(NamedOrders, MaxOrders)}
OrdersStatusMsgs ==
    {OrderStatusMsg("order_status_msg", 1, env[1], env[2], o, TRUE, st) :
        env \in Envelopes, o \in EmbeddedOrders, st \in Statuses}
OrdersFilledMsgs ==
    {OrderStatusMsg("order_filled_msg", 1, env[1], env[2], o, hs[1], hs[2]) :
        env \in Envelopes, o \in EmbeddedOrders,
        hs \in {<<TRUE, "PARTIAL">>, <<TRUE, "FILLED">>, <<FALSE, "None">>}}
OrdersCanceledMsgs ==
    {OrderCanceledMsg(1, "b", e, "CANCELED", l) :
        e \in {0, 7}, l \in SeqsUpTo(EmbeddedOrders, MaxOrders)}
    \cup {OrderCanceledMsg(1, "b", 0, "ACCEPTED", l) :
        l \in SeqsUpTo(EmbeddedOrders, MaxOrders)}
OrdersResults == {AllNone}

NextOrders ==
    \/ \E m \in OrdersTraderStatusMsgs, res \in OrdersResults : HandleMessage(m, res)
    \/ \E m \in OrdersStatusMsgs, res \in OrdersResults : HandleMessage(m, res)
    \/ \E m \in OrdersFilledMsgs, res \in OrdersResults : HandleMessage(m, res)
    \/ \E m \in OrdersCanceledMsgs, res \in OrdersResults : HandleMessage(m, res)

SpecOrders == Init /\ [][NextOrders]_vars

(* ---------------- the order-book messages of SpecBook ------------------ *)
Levels == {[price |-> p, quantity |-> q] : p \in {1, 2}, q \in {0, 3}}
BidLists == SeqsUpTo(Levels, MaxLevels)
AskLists == SeqsUpTo(Levels, 1)
BookMsgs == {OrderBookMsg(v, b, a) : v \in {1, 2}, b \in BidLists, a \in AskLists}
BookUpdatedMsgs == {OrderBookUpdatedMsg(1, b, a) : b \in BidLists, a \in AskLists}
BookResults == {AllNone}

NextBook ==
    \/ \E m \in BookMsgs, res \in BookResults : HandleMessage(m, res)
    \/ \E m \in BookUpdatedMsgs, res \in BookResults : HandleMessage(m, res)

SpecBook == Init /\ [][NextBook]_vars

(* ---------------------- every kind of message -------------------------- *)
\* Spec drives handle_message with all the kinds it dispatches and one it
\* does not; the callbacks return nothing or a coroutine.
TraderStatusMsgs ==
    {TraderStatusMsg(1, lev, l) :
        lev \in {0, 5}, l \in SeqsUpTo({OrderMsg("a", 1, 10)}, MaxOrders)}
TraderBalanceMsgs == {TraderBalanceMsg(2)}
\* <<stamp, pair, unreliable>>: two different messages for the other tracked
\* pair, one for the market's own pair, one for a pair that is not tracked
ExchangeRateMsgs ==
    {ExchangeRateMsg(x[1], x[2], x[3]) :
        x \in {<<1, 2, 0>>, <<2, 2, 1>>, <<2, 1, 1>>, <<1, 3, 0>>}}
OrderBookMsgs == {OrderBookMsg(1, <<>>, <<>>)}
OrderBookUpdatedMsgs == {OrderBookUpdatedMsg(1, <<>>, <<>>)}
OrderStatusMsgs ==
    {OrderStatusMsg("order_status_msg", 1, "a", e, OrderMsg(NoId, 1, 10), TRUE, st) :
        e \in {0, 7}, st \in {"ACCEPTED", "REJECTED"}}
OrderFilledMsgs ==
    {OrderStatusMsg("order_filled_msg", 1, "a", e, OrderMsg(NoId, 1, 10), TRUE, st) :
        e \in {0, 7}, st \in {"PARTIAL", "FILLED"}}
OrderCanceledMsgs ==
    {OrderCanceledMsg(1, "a", 0, "CANCELED", l) :
        l \in SeqsUpTo({OrderMsg("a", 1, 10), OrderMsg(NoId, 1, 10)}, MaxOrders)}
LeverageMsgs == {LeverageMsg(1, e, lev) : e \in {0, 7}, lev \in {0, 5}}
UnknownMsgs == {UnknownMsg}
Msgs == TraderStatusMsgs \cup TraderBalanceMsgs \cup ExchangeRateMsgs
            \cup OrderBookMsgs \cup OrderBookUpdatedMsgs \cup OrderStatusMsgs
            \cup OrderFilledMsgs \cup OrderCanceledMsgs \cup LeverageMsgs
            \cup UnknownMsgs
Results == {AllNone} \cup {Only(h, "coroutine") : h \in Hooks}

Next ==
    \/ \E m \in TraderStatusMsgs, res \in Results : HandleMessage(m, res)
    \/ \E m \in TraderBalanceMsgs, res \in Results : HandleMessage(m, res)
    \/ \E m \in ExchangeRateMsgs, res \in Results : HandleMessage(m, res)
    \/ \E m \in OrderBookMsgs, res \in Results : HandleMessage(m, res)
    \/ \E m \in OrderBookUpdatedMsgs, res \in Results : HandleMessage(m, res)
    \/ \E m \in OrderStatusMsgs, res \in Results : HandleMessage(m, res)
    \/ \E m \in OrderFilledMsgs, res \in Results : HandleMessage(m, res)
    \/ \E m \in OrderCanceledMsgs, res \in Results : HandleMessage(m, res)
    \/ \E m \in LeverageMsgs, res \in Results : HandleMessage(m, res)
    \/ \E m \in UnknownMsgs, res \in Results : HandleMessage(m, res)

Spec == Init /\ [][Next]_vars

(* ------------------------- the calls that fail -------------------------- *)
\* SpecFailures drives handle_message with orders whose id cannot be
\* resolved and with callbacks that return an unsupported value, besides
\* the ones that return nothing or a coroutine; a message of a kind that is
\* not dispatched may come after a call that failed.
FewOrders == {OrderMsg("a", 1, 10), OrderMsg(NoId, 1, 10)}
FailuresTraderStatusMsgs ==
    {TraderStatusMsg(1, 5, l) : l \in SeqsUpTo(FewOrders, MaxOrders)}
FailuresTraderBalanceMsgs == {TraderBalanceMsg(1)}
FailuresStatusMsgs ==
    {OrderStatusMsg("order_status_msg", 1, env[1], env[2], OrderMsg(NoId, 1, 10),
                    TRUE, st) :
        env \in {<<"a", 0>>, <<NoId, 0>>}, st \in {"ACCEPTED", "REJECTED"}}
FailuresUnknownMsgs == {UnknownMsg}
FailuresMsgs == FailuresTraderStatusMsgs \cup FailuresTraderBalanceMsgs
                    \cup FailuresStatusMsgs \cup FailuresUnknownMsgs
FailuresResults ==
    {AllNone, Only("order.on_update", "coroutine")}
        \cup {Only(h, "other") : h \in {"trader.on_update", "order.on_update",
                                        "last_trade.on_update"}}

NextFailures ==
    \/ \E m \in FailuresTraderStatusMsgs, res \in FailuresResults : HandleMessage(m, res)
    \/ \E m \in FailuresTraderBalanceMsgs, res \in FailuresResults : HandleMessage(m, res)
    \/ \E m \in FailuresStatusMsgs, res \in FailuresResults : HandleMessage(m, res)
    \/ \E m \in FailuresUnknownMsgs, res \in FailuresResults : HandleMessage(m, res)

SpecFailures == Init /\ [][NextFailures]_vars

(* -------------------- reading the trace of a call ---------------------- *)
\* positions of the trace entries of one operation
At(s, op) == {i \in 1..Len(s.trace) : s.trace[i][1] = op}
\* the order ids handle_order reconciled in the call
Reconciled(s) == {s.trace[i][2] : i \in At(s, "handle_order")}
\* the object the last handle_order of the call returned for id
LastOrder(s, id) ==
    LET I == {i \in At(s, "handle_order") : s.trace[i][2] = id}
    IN  s.trace[CHOOSE i \in I : \A j \in I : j <= i][3]
\* positions where callback event was called
Emits(s, event) ==
    {i \in At(s, "emit") : s.trace[i][2] = event[1] /\ s.trace[i][3] = event[2]}
\* positions where the on_update of an order with this id was called
OrderEmits(s, id) ==
    {i \in At(s, "emit") : /\ s.trace[i][2] = "order.on_update"
                           /\ s.heap[s.trace[i][3]].id = id}
\* the id handle_order resolves for an embedded order record
ResolvedId(order_msg, client_id) ==
    IF order_msg.orig_client_id # NoId THEN order_msg.orig_client_id ELSE client_id
OrderFields(s, oid) ==
    [status |-> s.heap[oid].status, price |-> s.heap[oid].price,
     quantity |-> s.heap[oid].quantity, error_code |-> s.heap[oid].error_code]

OrdersMsgs == OrdersTraderStatusMsgs \cup OrdersStatusMsgs \cup OrdersFilledMsgs
                \cup OrdersCanceledMsgs

(* ------------------------------- C1 ------------------------------------ *)
\* C1: Registry invariant.  Every registered order has status ACCEPTED or
\* PARTIAL, and whatever order message is handled next (trader-status,
\* order-status, order-filled, order-canceled; any ids), each id it
\* reconciles is afterwards in the registry exactly if the status recorded
\* last for it is ACCEPTED or PARTIAL, and each id it does not reconcile
\* keeps its membership and its order.  Hence in every reachable state an id
\* is registered iff its last recorded status is ACCEPTED or PARTIAL.
C1_RegistryInvariant ==
    /\ \A id \in DOMAIN orders :
        /\ heap[orders[id]].id = id
        /\ heap[orders[id]].status \in Live
    /\ \A m \in OrdersMsgs, res \in OrdersResults :
        LET s == Handled(m, res)
        IN  /\ ~s.overflow
            /\ \A id \in Reconciled(s) :
                /\ id \in DOMAIN s.orders <=> s.heap[LastOrder(s, id)].status \in Live
                /\ id \in DOMAIN s.orders => s.orders[id] = LastOrder(s, id)
            /\ \A id \in Ids \ Reconciled(s) :
                /\ id \in DOMAIN s.orders <=> id \in DOMAIN orders
                /\ id \in DOMAIN orders =>
                    /\ s.orders[id] = orders[id]
                    /\ s.heap[orders[id]].status = heap[orders[id]].status

\* both ids registered, one of them PARTIAL, and an order-status message
\* that takes one out of the registry while the other stays
C1_Witness ==
    /\ DOMAIN orders = Ids
    /\ \E id \in Ids : heap[orders[id]].status = "PARTIAL"
    /\ \E m \in OrdersStatusMsgs :
        LET s == Handled(m, AllNone)
        IN  /\ m.status = "REJECTED"
            /\ DOMAIN s.orders = {"b"}
            /\ At(s, "remove") # {}

(* ------------------------------- C3 ------------------------------------ *)
\* C3: for every order message whose handling returns and every order id
\* reconciled while handling it, exactly one order-update notification is
\* called for that id in the call's flush, also when the message names the
\* id more than once.
C3_OncePerOrderId ==
    \A m \in OrdersMsgs, res \in OrdersResults :
        LET s == Handled(m, res)
        IN  s.failed = "none" =>
                \A id \in Reconciled(s) : Cardinality(OrderEmits(s, id)) = 1

(* ------------------------------- C8 ------------------------------------ *)
\* C8: after handle_message has handled an order-filled message for a
\* registered order, the order's quantity is the message's orig_quantity -
\* quantity - dropped_quantity.
C8_FillQuantity ==
    \A m \in OrdersFilledMsgs, res \in OrdersResults :
        LET s == Handled(m, res)
        IN  (s.failed = "none" /\ ResolvedId(m, m.client_id) \in DOMAIN orders) =>
                s.heap[s.ret].quantity =
                    m.orig_quantity - m.quantity - m.dropped_quantity

(* ------------------------------- C9 ------------------------------------ *)
\* what handling m twice in a row gives: the first call, then the second
Twice(m, res) ==
    LET s1 == Handled(m, res)
    IN  <<s1, handle_message(AfterCall(s1), m, res)>>

\* C9 as stated: the second handling of an identical order-status message
\* leaves the same order state (status, price, quantity, error code) and the
\* same registry membership as the first.
C9_Original ==
    \A m \in OrdersStatusMsgs, res \in OrdersResults :
        LET t == Twice(m, res)
        IN  t[1].failed = "none" =>
                /\ t[2].failed = "none"
                /\ DOMAIN t[2].orders = DOMAIN t[1].orders
                /\ OrderFields(t[2], t[2].ret) = OrderFields(t[1], t[1].ret)

\* C9 (amended): the second handling of an identical order-status message
\* leaves the same status and the same registry membership as the first; it
\* leaves the same price, quantity and error code too unless the first
\* handling removed the order from the registry, and then the second builds
\* a new order with the message's own price and quantity.
C9_Redelivery ==
    \A m \in OrdersStatusMsgs, res \in OrdersResults :
        LET t == Twice(m, res)
        IN  t[1].failed = "none" =>
                /\ t[2].failed = "none"
                /\ DOMAIN t[2].orders = DOMAIN t[1].orders
                /\ t[2].heap[t[2].ret].status = t[1].heap[t[1].ret].status
                /\ At(t[2], "add") = {} /\ At(t[2], "remove") = {}
                /\ IF At(t[1], "remove") = {}
                   THEN OrderFields(t[2], t[2].ret) = OrderFields(t[1], t[1].ret)
                   ELSE /\ t[2].heap[t[2].ret].price = m.price
                        /\ t[2].heap[t[2].ret].quantity = m.quantity
                        /\ t[2].heap[t[2].ret].error_code =
                              IF m.error_code # 0 THEN m.error_code ELSE NoneNum

\* a registered order, and an order-status message with another price that
\* ends it: the first handling removes it, the second builds a new order
C9_Witness ==
    \E m \in OrdersStatusMsgs :
        LET t == Twice(m, AllNone)
        IN  /\ At(t[1], "remove") # {}
            /\ t[2].failed = "none"
            /\ t[2].heap[t[2].ret].price # t[1].heap[t[1].ret].price
            /\ t[2].heap[t[2].ret].error_code # t[1].heap[t[1].ret].error_code

(* ------------------------------- C10 ----------------------------------- *)
\* C10: when a registered order has status ACCEPTED and an order-canceled
\* message with status CANCELED that names it is handled (the call
\* returning), the order is no longer registered, it has the price and the
\* quantity it had before and status CANCELED, and its on_update was called
\* exactly once in the flush.
C10_Cancellation ==
    \A id \in DOMAIN orders :
        heap[orders[id]].status = "ACCEPTED" =>
            \A m \in OrdersCanceledMsgs, res \in OrdersResults :
                LET s == Handled(m, res)
                    oid == orders[id]
                IN  ( /\ m.status = "CANCELED"
                      /\ \E k \in 1..Len(m.orders) :
                            ResolvedId(m.orders[k], m.client_id) = id
                      /\ s.failed = "none" ) =>
                        /\ id \notin DOMAIN s.orders
                        /\ s.heap[oid].price = heap[oid].price
                        /\ s.heap[oid].quantity = heap[oid].quantity
                        /\ s.heap[oid].status = "CANCELED"
                        /\ Cardinality(Emits(s, OrderOnUpdate(oid))) = 1

\* an ACCEPTED order is registered and a cancel report that carries another
\* price and quantity for it is handled: the order leaves the registry
C10_Witness ==
    \E id \in DOMAIN orders :
        /\ heap[orders[id]].status = "ACCEPTED"
        /\ \E m \in OrdersCanceledMsgs :
            LET s == Handled(m, AllNone)
            IN  /\ m.status = "CANCELED"
                /\ Len(m.orders) = 1
                /\ m.orders[1].orig_client_id = id
                /\ m.orders[1].price # heap[orders[id]].price
                /\ m.orders[1].quantity # heap[orders[id]].quantity
                /\ s.failed = "none"
                /\ id \notin DOMAIN s.orders
                /\ Emits(s, OrderOnUpdate(orders[id])) # {}

(* ------------------------------- C2 ------------------------------------ *)
NoDuplicates(seq) == \A i, j \in 1..Len(seq) : seq[i] = seq[j] => i = j
\* the callbacks schedule_event was called with during the call
Scheduled(s) == {<<s.trace[i][2], s.trace[i][3]>> : i \in At(s, "schedule")}
IsMutation(entry) == entry[1] \in {"set", "handle_order", "add", "remove"}

\* C2: Coalescing.  While one message is handled no callback gets into the
\* pending list twice, a flush calls no callback twice, and the flush of a
\* call that returns calls every pending callback exactly once; a
\* trader-status message (balance and leverage both schedule the Trader's
\* on_update) has that hook called exactly once.
C2_Coalescing ==
    /\ NoDuplicates(scheduled_events)
    /\ \A m \in FailuresMsgs :
        /\ NoDuplicates(Dispatch(State, m).scheduled_events)
        /\ \A res \in FailuresResults :
            LET s == Handled(m, res)
                pending == Dispatch(State, m).scheduled_events
            IN  /\ \A i, j \in At(s, "emit") : s.trace[i] = s.trace[j] => i = j
                /\ s.failed = "none" =>
                    /\ \A event \in Scheduled(s) : InSeq(event, pending)
                    /\ \A k \in 1..Len(pending) :
                            Cardinality(Emits(s, pending[k])) = 1
                    /\ m.kind = "trader_status_msg" =>
                            Cardinality(Emits(s, TraderOnUpdate)) = 1

\* callbacks are left over from a failed call, and a trader-status message
\* with two orders is handled: the Trader's on_update is scheduled twice and
\* called once
C2_Witness ==
    /\ scheduled_events # <<>>
    /\ \E m \in FailuresTraderStatusMsgs :
        LET s == Handled(m, AllNone)
        IN  /\ Len(m.orders) = 2
            /\ s.failed = "none"
            /\ Cardinality({i \in At(s, "schedule") :
                    s.trace[i] = <<"schedule", "trader.on_update", 0>>}) = 2
            /\ Cardinality(Emits(s, TraderOnUpdate)) = 1

(* ------------------------------- C4 ------------------------------------ *)
\* C4: after handle_message has finished, returning or raising, the pending
\* list is empty, and every callback a flush calls was scheduled by the call
\* the flush belongs to.
C4_NoLeak ==
    /\ scheduled_events = <<>>
    /\ \A m \in FailuresMsgs, res \in FailuresResults :
        LET s == Handled(m, res)
        IN  \A i \in At(s, "emit") :
                <<s.trace[i][2], s.trace[i][3]>> \in Scheduled(s)

(* ------------------------------- C5 ------------------------------------ *)
\* C5: Notification ordering.  In the handling of any message no callback is
\* called before a mutation of that message: every mutation (of an entity,
\* the registry or the order book) comes before every call of a callback.
C5_NotifyAfterMutations ==
    \A m \in Msgs, res \in Results :
        LET s == Handled(m, res)
        IN  \A i \in At(s, "emit"), j \in 1..Len(s.trace) :
                IsMutation(s.trace[j]) => j < i

\* an order is registered and a cancel report that removes it is handled:
\* several entities are mutated and several callbacks are called
C5_Witness ==
    /\ "a" \in DOMAIN orders
    /\ \E m \in OrderCanceledMsgs :
        LET s == Handled(m, AllNone)
        IN  /\ At(s, "remove") # {}
            /\ Cardinality(At(s, "set")) >= 4
            /\ Cardinality(At(s, "emit")) >= 5

(* ------------------------------- C6 ------------------------------------ *)
Requests(s) ==
    {i \in At(s, "create_task") :
        s.trace[i] = <<"create_task", "order_book_request", MarketId>>}

\* C6: Snapshot-before-diff.  An incremental update handled while the book
\* has no snapshot leaves both sides absent, schedules no order-book
\* notification and issues exactly one snapshot request for this market; an
\* incremental update handled while the book is there issues none.
C6_SnapshotBeforeDiff ==
    \A m \in BookUpdatedMsgs, res \in BookResults :
        LET s == Handled(m, res)
        IN  IF Len(order_book.bids) = 0
            THEN /\ s.order_book = [bids |-> <<>>, asks |-> <<>>]
                 /\ OrderBookOnUpdate \notin Scheduled(s)
                 /\ Emits(s, OrderBookOnUpdate) = {}
                 /\ Cardinality(Requests(s)) = 1
            ELSE Requests(s) = {}

\* an incremental update has been handled (the last trade is there) and the
\* book is still absent; the next update with levels asks for a snapshot
C6_Witness ==
    /\ Len(order_book.bids) = 0
    /\ last_trade # <<>>
    /\ \E m \in BookUpdatedMsgs :
        /\ Len(m.bid_updates) > 0
        /\ Requests(Handled(m, AllNone)) # {}

(* ------------------------------- C7 ------------------------------------ *)
ZeroLevels(side) ==
    IF Len(side) = 0 THEN {} ELSE {p \in DOMAIN side[1] : side[1][p].quantity = 0}

\* C7: merging an entry (p, 0) into a side that has no level p leaves the
\* side unchanged, so no level with quantity zero is ever stored in the book.
C7_NoZeroLevels ==
    /\ ZeroLevels(order_book.bids) = {}
    /\ ZeroLevels(order_book.asks) = {}
    /\ \A side \in {order_book.bids, order_book.asks}, p \in {1, 2} :
        (Len(side) # 0 /\ p \notin DOMAIN side[1]) =>
            populate_orderbook(side[1], <<[price |-> p, quantity |-> 0]>>, 1) = side[1]

(* ------------------------------- C11 ----------------------------------- *)
\* the create_task entries of the trace for the result of callback event
Tasks(s, event) ==
    {j \in At(s, "create_task") : s.trace[j][2] = event[1] /\ s.trace[j][3] = event[2]}

\* C11: Fail-fast on an unsupported callback result.  In the flush of any
\* call, a callback that returns nothing is followed by no further action
\* (the next callback, or the end of the flush); a callback that returns a
\* coroutine has it handed to create_task exactly once, right after the
\* call; a callback that returns anything else makes handle_message raise
\* TypeError at once, and no callback after it in the pending list is called
\* in that flush.  A flush whose callbacks all return nothing or a coroutine
\* does not fail.
C11_FailFast ==
    \A m \in FailuresMsgs, res \in FailuresResults :
        LET s == Handled(m, res)
            dispatched == Dispatch(State, m)
            pending == dispatched.scheduled_events
        IN  /\ \A i \in At(s, "emit") :
                LET event == <<s.trace[i][2], s.trace[i][3]>>
                IN  CASE res[event[1]] = "None" ->
                            /\ Tasks(s, event) = {}
                            /\ i < Len(s.trace) => s.trace[i + 1][1] = "emit"
                      [] res[event[1]] = "coroutine" ->
                            /\ Tasks(s, event) = {i + 1}
                            /\ i + 1 < Len(s.trace) => s.trace[i + 2][1] = "emit"
                      [] OTHER ->
                            /\ s.failed = "TypeError"
                            /\ Tasks(s, event) = {}
                            /\ Len(s.trace) = i + 1
                            /\ s.trace[i + 1] = <<"raise", "TypeError", 0>>
                            /\ \A k, l \in 1..Len(pending) :
                                    (pending[k] = event /\ k < l) =>
                                        Emits(s, pending[l]) = {}
            /\ ( /\ dispatched.failed = "none"
                  /\ \A k \in 1..Len(pending) : res[pending[k][1]] # "other" ) =>
                    s.failed = "none"

\* messages have been handled, and a trader-status message with an order is
\* handled while last_trade.on_update returns an unsupported value: the call
\* raises TypeError and the callbacks scheduled after it are not called
C11_Witness ==
    /\ last_trade # <<>>
    /\ \E m \in FailuresTraderStatusMsgs :
        LET s == Handled(m, Only("last_trade.on_update", "other"))
        IN  /\ Len(m.orders) > 0
            /\ s.failed = "TypeError"
            /\ Emits(s, LastTradeOnUpdate) # {}
            /\ Emits(s, PositionOnUpdate) = {}
            /\ InSeq(PositionOnUpdate, s.scheduled_events)
            /\ \E oid \in Slots : /\ InSeq(OrderOnUpdate(oid), s.scheduled_events)
                                  /\ Emits(s, OrderOnUpdate(oid)) = {}

(* ------------------------------- C12 ----------------------------------- *)
\* the order records a message has handle_order reconcile
OrderRecords(m) ==
    IF m.kind \in {"order_canceled_msg", "trader_status_msg"} THEN m.orders ELSE <<m>>
\* the Order objects handle_order returned in the call
ReconciledOrders(s) == {s.trace[i][3] : i \in At(s, "handle_order")}
ErrorMsgs ==
    {m \in OrdersStatusMsgs \cup OrdersFilledMsgs \cup OrdersCanceledMsgs :
        m.error_code # 0}

\* C12: Order-level errors are data.  An order-status, order-filled or
\* order-canceled message whose envelope has a nonzero error code does not
\* fail because of it: it returns whenever its order ids resolve, and where
\* it raises, the same message with error code zero raises the same.  When
\* it returns, every order reconciled in the call has the envelope's error
\* code and has had its on_update called; the error code of every other
\* order is what it was.
C12_ErrorsAreData ==
    \A m \in ErrorMsgs, res \in OrdersResults :
        LET s == Handled(m, res)
            records == OrderRecords(m)
        IN  /\ s.failed # "none" =>
                    Handled([m EXCEPT !.error_code = 0], res).failed = s.failed
            /\ (\A k \in 1..Len(records) : ResolvedId(records[k], m.client_id) # NoId)
                    => s.failed = "none"
            /\ s.failed = "none" =>
                    /\ Cardinality(At(s, "handle_order")) = Len(records)
                    /\ \A oid \in ReconciledOrders(s) :
                            /\ s.heap[oid].error_code = m.error_code
                            /\ Emits(s, OrderOnUpdate(oid)) # {}
            /\ \A oid \in Slots \ ReconciledOrders(s) :
                    s.heap[oid].error_code = heap[oid].error_code

\* both orders are registered, b with an error code; a cancel report with
\* another error code for a alone is handled: a gets the code and its
\* notification, b keeps its own
C12_Witness ==
    /\ DOMAIN orders = Ids
    /\ heap[orders["b"]].error_code = 8
    /\ heap[orders["a"]].error_code = NoneNum
    /\ \E m \in OrdersCanceledMsgs :
        LET s == Handled(m, AllNone)
        IN  /\ m.error_code = 7
            /\ Reconciled(s) = {"a"}
            /\ s.failed = "none"
            /\ s.heap[orders["a"]].error_code = 7
            /\ s.heap[orders["b"]].error_code = 8
            /\ Emits(s, OrderOnUpdate(orders["a"])) # {}

(* ------------------------------- C13 ----------------------------------- *)
\* the entities, the registry and the order book
Entities(s) ==
    <<s.trader, s.position, s.margins, s.orders, s.heap, s.currency_pairs,
      s.last_trade, s.order_book>>

\* C13: Unrecognized message kinds are ignored.  handle_message on a message
\* of a kind that is not dispatched does not fail, leaves every entity, the
\* registry and the order book as they were, issues no snapshot request and
\* schedules no notification.
C13_UnknownIgnored ==
    \A m \in FailuresUnknownMsgs, res \in FailuresResults :
        LET s == Handled(m, res)
        IN  /\ s.failed = "none"
            /\ Entities(s) = Entities(State)
            /\ Requests(s) = {}
            /\ At(s, "schedule") = {}

(* ------------------------------- C14 ----------------------------------- *)
\* balance and P&L of the trader, the position, the three margin figures
Aggregates(s) == <<s.trader.balance, s.trader.upnl, s.trader.pnl, s.position, s.margins>>
\* what the message carries for them
AggregatesOf(m) ==
    <<m.trader_balance, m.upnl, m.pnl,
      [contracts |-> m.position_contracts, volume |-> m.position_volume,
       liquidation_volume |-> m.position_liquidation_volume,
       bankruptcy_volume |-> m.position_bankruptcy_volume,
       type |-> m.position_type, margin |-> m.position_margin],
      [margin |-> m.order_margin, buy_margin |-> m.buy_order_margin,
       sell_margin |-> m.sell_order_margin]>>
AggregateSets(s) ==
    {i \in At(s, "set") : s.trace[i][2] \in {"trader", "position", "margins"}}

\* C14: Error envelopes leave the account aggregates untouched.  An
\* order-status or order-filled message with a nonzero envelope error code
\* leaves the trader's balance and P&L, the position and the three margin
\* figures as they were and schedules no trader, position or margin
\* notification; with error code zero all three groups are overwritten from
\* the message, each before the order is reconciled, and their three
\* notifications are scheduled.
C14_ErrorEnvelope ==
    \A m \in OrderStatusMsgs \cup OrderFilledMsgs, res \in Results :
        LET s == Handled(m, res)
        IN  IF m.error_code # 0
            THEN /\ Aggregates(s) = Aggregates(State)
                 /\ AggregateSets(s) = {}
                 /\ Scheduled(s) \cap {TraderOnUpdate, PositionOnUpdate,
                                       MarginsOnUpdate} = {}
            ELSE /\ Aggregates(s) = AggregatesOf(m)
                 /\ {s.trace[i][2] : i \in AggregateSets(s)} =
                        {"trader", "position", "margins"}
                 /\ \A i \in AggregateSets(s), j \in At(s, "handle_order") : i < j
                 /\ {TraderOnUpdate, PositionOnUpdate, MarginsOnUpdate}
                        \subseteq Scheduled(s)

\* the aggregates hold what a trader-balance message brought, and an
\* order-filled message with other figures and an error code is handled:
\* the order is reconciled and notified, the aggregates stay
C14_Witness ==
    /\ trader.balance = Val(2, 1)
    /\ position.contracts = Val(2, 4)
    /\ margins.margin = Val(2, 9)
    /\ \E m \in OrderFilledMsgs :
        LET s == Handled(m, AllNone)
        IN  /\ m.error_code # 0
            /\ m.trader_balance # trader.balance
            /\ s.failed = "none"
            /\ At(s, "handle_order") # {}
            /\ Emits(s, OrderOnUpdate(s.ret)) # {}
            /\ s.trader.balance = Val(2, 1)

(* ------------------------------- C15 ----------------------------------- *)
\* C15: Status determination.  Whatever order record handle_order is called
\* with (one with an explicit status or one without), with or without an
\* envelope and with or without a forced status, the order it returns has
\* the record's explicit status if there is one; else the forced status if
\* one is given; else, for an order that was not in the registry, ACCEPTED
\* when the record's orig_quantity equals the new order's quantity and
\* PARTIAL when it differs; else, for an order that was in the registry, the
\* status it had.
C15_StatusPriority ==
    \A m \in EmbeddedOrders \cup OrdersStatusMsgs \cup OrdersFilledMsgs,
       outer_message \in {NoOuter, [present |-> TRUE, client_id |-> "b",
                                    error_code |-> 0]},
       forced_status \in {"None", "CANCELED", "ACCEPTED"} :
        LET s == handle_order(State, m, outer_message, forced_status)
            id == ResolvedId(m, outer_message.client_id)
        IN  s.failed = "none" =>
                s.heap[s.ret].status =
                    IF m.has_status THEN m.status
                    ELSE IF forced_status # "None" THEN forced_status
                    ELSE IF id \notin DOMAIN orders
                         THEN IF m.orig_quantity = s.heap[s.ret].quantity
                              THEN "ACCEPTED" ELSE "PARTIAL"
                         ELSE heap[orders[id]].status

\* order a is registered as PARTIAL with the quantity 10 that an inference
\* would call ACCEPTED, and a trader-status message (no explicit, no forced
\* status) names it: it stays PARTIAL
C15_Witness ==
    /\ "a" \in DOMAIN orders
    /\ heap[orders["a"]].status = "PARTIAL"
    /\ heap[orders["a"]].quantity = 10
    /\ \E m \in OrdersTraderStatusMsgs :
        LET s == Handled(m, AllNone)
        IN  /\ Len(m.orders) > 0
            /\ m.orders[1].orig_client_id = "a"
            /\ m.orders[1].orig_quantity = 10
            /\ s.failed = "none"
            /\ s.heap[orders["a"]].status = "PARTIAL"

(* ------------------------------- C16 ----------------------------------- *)
\* the side maps of the book as it is (none while the book is absent)
Sides == {side[1] : side \in {x \in {order_book.bids, order_book.asks} : Len(x) # 0}}
\* positions of the entries of a list that name price p
Naming(source, p) == {k \in 1..Len(source) : source[k].price = p}

\* C16: Order-book merge rule.  Merging a list of entries into a side map
\* of the book handles them in order: a price that no entry names keeps its
\* level or its absence; for a price that is named, the last entry naming
\* it decides: with a nonzero quantity it is the level; with quantity zero
\* the level is absent if the price was in the map when that entry's turn
\* came (after the merge of the entries before it), and else the entry is
\* stored.  So [(p, q1), (p, 0)] with q1 nonzero leaves p absent.
C16_MergeRule ==
    \A target \in Sides, source \in BidLists, p \in {1, 2} :
        LET merged == populate_orderbook(target, source, 1)
            K == Naming(source, p)
        IN  IF K = {}
            THEN /\ p \in DOMAIN merged <=> p \in DOMAIN target
                 /\ p \in DOMAIN target => merged[p] = target[p]
            ELSE LET k == CHOOSE i \in K : \A j \in K : j <= i
                     before == populate_orderbook(target, SubSeq(source, 1, k - 1), 1)
                 IN  /\ (source[k].quantity = 0 /\ p \in DOMAIN before)
                            => p \notin DOMAIN merged
                     /\ (source[k].quantity # 0 \/ p \notin DOMAIN before)
                            => (p \in DOMAIN merged /\ merged[p] = source[k])
                     /\ ( /\ Len(source) = 2
                           /\ K = {1, 2}
                           /\ source[1].quantity # 0
                           /\ source[2].quantity = 0 ) => p \notin DOMAIN merged

\* the bids hold the levels 1 and 2, and an incremental update with the bid
\* entries (1, 3), (1, 0) is handled: level 1 is gone, level 2 is as it was
C16_Witness ==
    /\ Len(order_book.bids) # 0
    /\ DOMAIN order_book.bids[1] = {1, 2}
    /\ \E m \in BookUpdatedMsgs :
        LET s == Handled(m, AllNone)
        IN  /\ m.bid_updates = <<[price |-> 1, quantity |-> 3],
                                 [price |-> 1, quantity |-> 0]>>
            /\ DOMAIN s.order_book.bids[1] = {2}
            /\ s.order_book.bids[1][2] = order_book.bids[1][2]

(* ------------------------------- C17 ----------------------------------- *)
\* the entries of a list, as a set
Supplied(source) == {source[k] : k \in 1..Len(source)}
\* the levels of a side, as a set; none while the side is absent
LevelsOf(side) == IF Len(side) = 0 THEN {} ELSE {side[1][p] : p \in DOMAIN side[1]}

\* C17: Snapshot is a full replacement.  After an order-book snapshot has
\* been handled, whatever the book was before, both sides are there, every
\* level of a side is an entry the snapshot supplied for that side, and the
\* sides are what the merge of the snapshot's lists into empty maps gives:
\* no level from before is left unless the snapshot supplies it.
C17_SnapshotReplaces ==
    \A m \in BookMsgs, res \in BookResults :
        LET s == Handled(m, res)
        IN  /\ Len(s.order_book.bids) = 1 /\ Len(s.order_book.asks) = 1
            /\ LevelsOf(s.order_book.bids) \subseteq Supplied(m.bids)
            /\ LevelsOf(s.order_book.asks) \subseteq Supplied(m.asks)
            /\ s.order_book.bids[1] = populate_orderbook(EmptyDict, m.bids, 1)
            /\ s.order_book.asks[1] = populate_orderbook(EmptyDict, m.asks, 1)

\* the bids hold the levels 1 and 2 and the asks hold a level, and a
\* snapshot with the bid level 1 alone and no asks is handled: bid level 2
\* and the ask level are gone
C17_Witness ==
    /\ Len(order_book.bids) # 0
    /\ DOMAIN order_book.bids[1] = {1, 2}
    /\ DOMAIN order_book.asks[1] # {}
    /\ \E m \in BookMsgs :
        LET s == Handled(m, AllNone)
        IN  /\ m.bids = <<[price |-> 1, quantity |-> 3]>>
            /\ m.asks = <<>>
            /\ DOMAIN s.order_book.bids[1] = {1}
            /\ DOMAIN s.order_book.asks[1] = {}

(* ------------------------------- C18 ----------------------------------- *)
\* C18: Exchange-rate handling.  An exchange-rate message that names a pair
\* the account does not track changes nothing and schedules nothing.  One
\* that names a tracked pair overwrites mark price, sell price, buy price
\* and reliability flag of that pair from the message, schedules that
\* pair's on_update and nothing else, and leaves every other pair (the
\* market's own pair too, when it is another one) and everything else as
\* it was.
C18_ExchangeRate ==
    \A m \in ExchangeRateMsgs :
        LET s == Dispatch(State, m)
            pair == m.currency_pair_id
        IN  IF pair \notin DOMAIN currency_pairs
            THEN s = State
            ELSE /\ s.currency_pairs[pair] =
                        [mark_price |-> m.mark_price, sell_price |-> m.sell_price,
                         buy_price |-> m.buy_price,
                         unreliable |-> IF m.unreliable = 0 THEN "False" ELSE "True"]
                 /\ \A other \in DOMAIN currency_pairs \ {pair} :
                        s.currency_pairs[other] = currency_pairs[other]
                 /\ [s EXCEPT !.currency_pairs = currency_pairs,
                              !.scheduled_events = scheduled_events,
                              !.trace = <<>>] = State
                 /\ Scheduled(s) = {PairOnUpdate(pair)}
                 /\ InSeq(PairOnUpdate(pair), s.scheduled_events)
                 /\ s.failed = "none"

\* the market's own pair has a mark price and the other pair has the rates
\* of an earlier message; an exchange-rate message with other rates for the
\* other pair is handled: that pair is overwritten and notified, the own
\* pair keeps its mark price
C18_Witness ==
    /\ currency_pairs[OwnPair].mark_price = Val(1, 12)
    /\ currency_pairs[2].sell_price = Val(1, 16)
    /\ currency_pairs[2].unreliable = "False"
    /\ \E m \in ExchangeRateMsgs :
        LET s == Handled(m, AllNone)
        IN  /\ m.currency_pair_id = 2
            /\ m.sell_price = Val(2, 16)
            /\ m.unreliable = 1
            /\ s.currency_pairs[2].sell_price = Val(2, 16)
            /\ s.currency_pairs[2].unreliable = "True"
            /\ s.currency_pairs[OwnPair].mark_price = Val(1, 12)
            /\ Emits(s, PairOnUpdate(2)) # {}
            /\ Emits(s, PairOnUpdate(OwnPair)) = {}

(* ------------------------------- C19 ----------------------------------- *)
Initialized(book) == Len(book.bids) # 0 /\ Len(book.asks) # 0

\* C19: Book initialization is permanent and snapshot requests stop with
\* it.  A snapshot leaves the book initialized; once the book is
\* initialized, no message of any kind takes it back to the uninitialized
\* state or issues a snapshot request; while it is not, every incremental
\* update issues exactly one request and leaves it uninitialized, and so
\* does the incremental update after it: k updates before the first
\* snapshot issue k requests.
C19_InitializedForGood ==
    /\ Initialized(order_book) \/ order_book = [bids |-> <<>>, asks |-> <<>>]
    /\ \A m \in BookMsgs \cup BookUpdatedMsgs \cup Msgs, res \in BookResults :
        LET s == Handled(m, res)
        IN  /\ m.kind = "order_book_msg" => Initialized(s.order_book)
            /\ Initialized(order_book) =>
                    /\ Initialized(s.order_book)
                    /\ Requests(s) = {}
            /\ (~Initialized(order_book) /\ m.kind = "order_book_updated_msg") =>
                    /\ Cardinality(Requests(s)) = 1
                    /\ ~Initialized(s.order_book)
                    /\ \A next \in BookUpdatedMsgs :
                            Cardinality(Requests(
                                handle_message(AfterCall(s), next, res))) = 1
            /\ m.kind \notin {"order_book_msg", "order_book_updated_msg"} =>
                    /\ s.order_book = order_book
                    /\ Requests(s) = {}

\* a snapshot has come and the book has no level left on either side; an
\* incremental update with bid entries is handled: the book is still
\* there and no snapshot is requested
C19_Witness ==
    /\ Initialized(order_book)
    /\ DOMAIN order_book.bids[1] = {}
    /\ DOMAIN order_book.asks[1] = {}
    /\ \E m \in BookUpdatedMsgs :
        LET s == Handled(m, AllNone)
        IN  /\ Len(m.bid_updates) > 0
            /\ Requests(s) = {}
            /\ At(s, "set") # {}
            /\ Initialized(s.order_book)

(* ------------------------------- C20 ----------------------------------- *)
\* C20: An attached error code is sticky.  No order ever stores error code
\* zero, and once a registered order has an error code, whatever order
\* message is handled next, if the order is still registered afterwards its
\* error code is the one it had, unless the message reconciled it under an
\* envelope with a nonzero error code: then it is that code.  An envelope
\* with error code zero and a trader-status message (no envelope) leave it.
C20_ErrorCodeSticky ==
    /\ \A oid \in Slots : heap[oid].error_code # 0
    /\ \A id \in DOMAIN orders :
        heap[orders[id]].error_code # NoneNum =>
            \A m \in OrdersMsgs, res \in OrdersResults :
                LET s == Handled(m, res)
                    oid == orders[id]
                IN  id \in DOMAIN s.orders =>
                        /\ s.orders[id] = oid
                        /\ s.heap[oid].error_code =
                                IF /\ id \in Reconciled(s)
                                   /\ m.kind # "trader_status_msg"
                                   /\ m.error_code # 0
                                THEN m.error_code
                                ELSE heap[oid].error_code

\* a registered order has error code 7; an order-status message for it with
\* error code zero keeps it registered with 7, a trader-status message
\* naming it too, and an order-status message with error code 8 makes it 8
C20_Witness ==
    \E id \in DOMAIN orders :
        /\ heap[orders[id]].error_code = 7
        /\ \E m \in OrdersStatusMsgs :
            LET s == Handled(m, AllNone)
            IN  /\ m.error_code = 0
                /\ Reconciled(s) = {id}
                /\ id \in DOMAIN s.orders
                /\ s.heap[orders[id]].error_code = 7
        /\ \E m \in OrdersTraderStatusMsgs :
            LET s == Handled(m, AllNone)
            IN  /\ id \in Reconciled(s)
                /\ s.heap[orders[id]].error_code = 7
        /\ \E m \in OrdersStatusMsgs :
            LET s == Handled(m, AllNone)
            IN  /\ m.error_code = 8
                /\ Reconciled(s) = {id}
                /\ id \in DOMAIN s.orders
                /\ s.heap[orders[id]].error_code = 8

====
